---- MODULE Spec2Model ----
(***************************************************************************)
(* Model of the ghcr.io container repository cleanup action:              *)
(*   - forest construction (scanRoots and its three linking passes),      *)
(*   - the in-memory package repository (GithubPackageRepo),              *)
(*   - the selection of tags and versions to delete (CleanupAction.run),  *)
(*   - the deletion of tags and versions.                                 *)
(*                                                                         *)
(* A version is identified by a number i.  Its digest is the key          *)
(* <<"dig", i>>, its numeric id the key <<"id", i>>.  A plain tag is the   *)
(* key <<"tag", n>> (a tag without '-'), a tag of the referrers tag       *)
(* schema sha256-<hex of digest i> is the key <<"ref", i>>.               *)
(***************************************************************************)
EXTENDS Integers, Sequences, FiniteSets, TLC

VARIABLES
  config,          \* Config: includeTags, excludeTags, keepNtagged, keepNuntagged, dryRun
  repository,      \* what the Packages API and the registry hold: the ingested records
  versions,        \* GithubPackageRepo.versions: key -> version
  tags,            \* GithubPackageRepo.tags (a Set, in insertion order)
  digests,         \* GithubPackageRepo.digests
  uniqueVersions,  \* GithubPackageRepo.uniqueVersions (a Set, in insertion order)
  roots,           \* GithubPackageRepo.roots (a Set, in insertion order)
  vtags,           \* version.metadata.container.tags of every version object
  parent,          \* version.parent of every version object (0 is null)
  children,        \* version.children of every version object
  type,            \* version.type of every version object
  pc,              \* position of CleanupAction.run
  plan,            \* the sets computed by run: remove, keep, tagsRest, imagesRest, tagsDelete, versionsDelete
  tagIdx,          \* index into tagsDelete of the tag being deleted
  tagStep,         \* await point of deleteTag: "idle", "put", "relist", "delete"
  verIdx,          \* number of versions of versionsDelete whose deletion has been started
  inFlight,        \* the promises of the deletion loop that have not settled (by version)
  awaiting,        \* the deletion loop is suspended in Promise.race / Promise.all
  deletedCount,    \* deletedCount of the deletion loop
  calls,           \* requests sent: PUT manifest, DeleteVersion, list versions
  jsonString,      \* the argument of a call of parseManifest
  manifest         \* what that call returned or threw

vars == <<config, repository, versions, tags, digests, uniqueVersions, roots,
          vtags, parent, children, type, pc, plan, tagIdx, tagStep, verIdx,
          inFlight, awaiting, deletedCount, calls, jsonString, manifest>>

parserVars == <<jsonString, manifest>>

repoVars == <<versions, tags, digests, uniqueVersions, roots, vtags, parent, children, type>>

----------------------------------------------------------------------------
(* Sequences as ordered collections.                                       *)

Range(s) == {s[i] : i \in 1..Len(s)}

Includes(s, x) == \E i \in 1..Len(s) : s[i] = x

RECURSIVE Filter(_, _)
Filter(s, keep) ==
  IF s = <<>> THEN <<>>
  ELSE IF Head(s) \in keep THEN <<Head(s)>> \o Filter(Tail(s), keep)
  ELSE Filter(Tail(s), keep)

Without(s, x) == Filter(s, Range(s) \ {x})

PushUnique(s, x) == IF Includes(s, x) THEN s ELSE Append(s, x)

RECURSIVE Flatten(_)
Flatten(ss) == IF ss = <<>> THEN <<>> ELSE Head(ss) \o Flatten(Tail(ss))

Slice(s, from, to) == [i \in 1..(IF to > Len(s) THEN Len(s) ELSE to) - from |-> s[from + i]]

----------------------------------------------------------------------------
(* Keys of the versions map.                                               *)

Dig(i) == <<"dig", i>>
Id(i) == <<"id", i>>
Tag(n) == <<"tag", n>>
RefTag(i) == <<"ref", i>>

\* t.replace('-', ':'): the first '-' of a referrers tag sha256-<hex> becomes
\* ':', which gives the digest; a plain tag has no '-' and is unchanged.
ReplaceDash(t) == IF t[1] = "ref" THEN Dig(t[2]) ELSE t

\* RegExp(/^sha256-[a-f0-9]{64}$/).exec(t)
IsReferrerTag(t) == t[1] = "ref"

\* getVersion: versions.get(key), 0 for undefined.
getVersion(vmap, key) == IF key \in DOMAIN vmap THEN vmap[key] ELSE 0

----------------------------------------------------------------------------
(* Tree primitives.  A forest f is a record of the node fields parent,     *)
(* children and type of every version object, with f.ok = FALSE once an    *)
(* Error has been thrown (the fields keep the values they had then).       *)

linkVersions(f, p, c) ==
  IF ~f.ok THEN f
  ELSE IF p = c THEN [f EXCEPT !.ok = FALSE]
  ELSE IF f.parent[c] # 0
    THEN (IF f.parent[c] = p THEN f ELSE [f EXCEPT !.ok = FALSE])
  ELSE [f EXCEPT !.parent[c] = p, !.children[p] = PushUnique(@, c)]

\* The calls linkVersions(pair[1], pair[2]) of one pass, in order.
RECURSIVE LinkAll(_, _)
LinkAll(f, pairs) ==
  IF pairs = <<>> THEN f
  ELSE LinkAll(linkVersions(f, Head(pairs)[1], Head(pairs)[2]), Tail(pairs))

\* visit(node, fn): the nodes fn is applied to, in pre-order.  The recursion
\* has no visited set; a path longer than the number of objects lies on a
\* cycle, where the recursion does not return (ok = FALSE).
RECURSIVE visit(_, _, _)
visit(ch, node, fuel) ==
  IF fuel = 0 THEN [ok |-> FALSE, nodes |-> <<>>]
  ELSE LET subs == [k \in 1..Len(ch[node]) |-> visit(ch, ch[node][k], fuel - 1)]
       IN  [ok |-> \A k \in 1..Len(subs) : subs[k].ok,
            nodes |-> <<node>> \o Flatten([k \in 1..Len(subs) |-> subs[k].nodes])]

----------------------------------------------------------------------------
(* Relationship discovery (github-package.ts).  recs holds the manifest of  *)
(* every version: manifests (digests of an index), subject (0: none) and    *)
(* layers ("absent", "empty", "intoto": all application/vnd.in-toto+json,   *)
(* "image": some other layer).                                              *)

getManifestChildren(rec) == rec.manifests

\* The pairs <<parent, child>> linked by discoverAndLinkManifestChildren.
ManifestChildPairs(U, vmap, recs) ==
  Flatten([k \in 1..Len(U) |->
    LET ds == getManifestChildren(recs[U[k]])
        vs == [j \in 1..Len(ds) |-> <<U[k], getVersion(vmap, Dig(ds[j]))>>]
    IN  SelectSeq(vs, LAMBDA pr : pr[2] # 0)])

\* The pairs <<parent, child>> linked by discoverAndLinkReferrers.
ReferrerPairs(U, vmap, recs) ==
  LET vs == [k \in 1..Len(U) |->
               <<(IF recs[U[k]].subject = 0 THEN 0
                  ELSE getVersion(vmap, Dig(recs[U[k]].subject))), U[k]>>]
  IN  SelectSeq(vs, LAMBDA pr : pr[1] # 0)

\* The pairs <<parent, child>> linked by discoverAndLinkReferrerTags.
ReferrerTagPairs(U, vmap, vt) ==
  Flatten([k \in 1..Len(U) |->
    LET ts == vt[U[k]]
        vs == [j \in 1..Len(ts) |-> <<getVersion(vmap, ReplaceDash(ts[j])), U[k]>>]
    IN  SelectSeq(vs, LAMBDA pr : pr[1] # 0 /\ pr[1] # U[k] /\ Includes(U, pr[1]))])

\* .map(... => linkVersions(...)): links the pairs in order and returns the
\* forest with the set of children the pass returns.
LinkPairs(f, pairs) ==
  [f |-> LinkAll(f, pairs), linked |-> {pairs[k][2] : k \in 1..Len(pairs)}]

discoverAndLinkManifestChildren(f, U, vmap, recs) ==
  LinkPairs(f, ManifestChildPairs(U, vmap, recs))

discoverAndLinkReferrers(f, U, vmap, recs) ==
  LinkPairs(f, ReferrerPairs(U, vmap, recs))

discoverAndLinkReferrerTags(f, U, vmap, vt) ==
  LinkPairs(f, ReferrerTagPairs(U, vmap, vt))

getArtifactType(rec, ts) ==
  IF rec.layers # "absent"
    THEN (IF rec.layers \in {"empty", "intoto"} THEN "attestation" ELSE "single-arch image")
  ELSE IF rec.subject # 0 THEN "attestation"
  ELSE IF \E k \in 1..Len(ts) : IsReferrerTag(ts[k]) THEN "attestation"
  ELSE IF Len(rec.manifests) > 0 THEN "multi-arch image"
  ELSE "unknown"

\* for (const v of roots) { v.children = []; v.parent = null; v.type = 'unknown' }
ResetNodes(f0, inU) ==
  [ok |-> TRUE,
   parent |-> [v \in DOMAIN f0.parent |-> IF v \in inU THEN 0 ELSE f0.parent[v]],
   children |-> [v \in DOMAIN f0.children |-> IF v \in inU THEN <<>> ELSE f0.children[v]],
   type |-> [v \in DOMAIN f0.type |-> IF v \in inU THEN "unknown" ELSE f0.type[v]]]

\* for (const v of discoverAndLink...(roots, getVersion)) { roots.delete(v) }
DeleteLinked(rootSeq, r) ==
  [f |-> r.f, roots |-> Filter(rootSeq, Range(rootSeq) \ r.linked)]

\* The three passes of scanRoots, each over the roots the earlier ones left.
ManifestChildrenPass(s, vmap, recs) ==
  DeleteLinked(s.roots, discoverAndLinkManifestChildren(s.f, s.roots, vmap, recs))

ReferrersPass(s, vmap, recs) ==
  DeleteLinked(s.roots, discoverAndLinkReferrers(s.f, s.roots, vmap, recs))

ReferrerTagsPass(s, vmap, vt) ==
  DeleteLinked(s.roots, discoverAndLinkReferrerTags(s.f, s.roots, vmap, vt))

\* for (const v of roots) { visit(v, _v => { _v.type = getArtifactType(_v) }) }
\* visits holds the result of visit for every root.
SetTypes(s, visits, recs, vt) ==
  IF ~s.f.ok \/ \E k \in 1..Len(visits) : ~visits[k].ok
    THEN [s.f EXCEPT !.ok = FALSE] @@ [roots |-> <<>>]
  ELSE [s.f EXCEPT !.type =
          [v \in DOMAIN s.f.type |->
             IF \E k \in 1..Len(visits) : Includes(visits[k].nodes, v)
               THEN getArtifactType(recs[v], vt[v]) ELSE s.f.type[v]]]
       @@ [roots |-> s.roots]

TypePass(s, recs, vt, fuel) ==
  SetTypes(s, [k \in 1..Len(s.roots) |-> visit(s.f.children, s.roots[k], fuel)], recs, vt)

\* scanRoots(uniqueVersions, getVersion): resets the nodes of U, runs the three
\* passes and sets the type of every node visited from a root.  Returns the
\* forest and the root set; ok = FALSE when linkVersions threw or visit did
\* not return.
scanRoots(U, vmap, recs, vt, f0) ==
  TypePass(
    ReferrerTagsPass(
      ReferrersPass(
        ManifestChildrenPass([f |-> ResetNodes(f0, Range(U)), roots |-> U], vmap, recs),
        vmap, recs),
      vmap, vt),
    recs, vt, Cardinality(DOMAIN f0.parent) + 1)

----------------------------------------------------------------------------
(* Selection (CleanupAction).                                               *)

\* new RegExp(regexStr).test(item), for the expressions the configurations use.
RegexTest(regexStr, item) ==
  CASE regexStr = "^t1$" -> item = Tag(1)
    [] regexStr = "^t2$" -> item = Tag(2)
    [] regexStr = "^sha256-" -> item[1] = "ref"
    [] regexStr = ".*" -> TRUE
    [] OTHER -> FALSE

matchItems(regexStr, items) == SelectSeq(items, LAMBDA item : RegexTest(regexStr, item))

\* getTags(true): the tags of the attestations too.
getTags_all(tagSeq, vmap, ty) == tagSeq

\* GithubPackageRepo.getTags(): the tags whose version is not an attestation.
getTags(tagSeq, vmap, ty) ==
  SelectSeq(tagSeq, LAMBDA t : ~(getVersion(vmap, t) # 0 /\ ty[getVersion(vmap, t)] = "attestation"))

\* getClosure without the recursion into the children.
getClosure_flat(vmap, ch, key, fuel) ==
  [ok |-> TRUE,
   result |-> IF getVersion(vmap, key) = 0 THEN <<>> ELSE <<getVersion(vmap, key)>>]

\* CleanupAction.getClosure(key): the version of key followed by the closures
\* of its children, each looked up by its digest.  ok = FALSE when the
\* recursion does not return (children on a cycle).
RECURSIVE getClosure(_, _, _, _)
getClosure(vmap, ch, key, fuel) ==
  IF fuel = 0 THEN [ok |-> FALSE, result |-> <<>>]
  ELSE LET version == getVersion(vmap, key)
       IN  IF version = 0 THEN [ok |-> TRUE, result |-> <<>>]
           ELSE LET subs == [k \in 1..Len(ch[version]) |->
                               getClosure(vmap, ch, Dig(ch[version][k]), fuel - 1)]
                IN  [ok |-> \A k \in 1..Len(subs) : subs[k].ok,
                     result |-> <<version>> \o Flatten([k \in 1..Len(subs) |-> subs[k].result])]

RECURSIVE PushAllUnique(_, _)
PushAllUnique(s, xs) ==
  IF xs = <<>> THEN s ELSE PushAllUnique(PushUnique(s, Head(xs)), Tail(xs))

\* addVersions pushing the versions of the closure without their tags.
AddClosure_versionsOnly(set, c, vt) ==
  IF ~c.ok THEN [set EXCEPT !.ok = FALSE]
  ELSE [set EXCEPT !.versions = PushAllUnique(@, c.result)]

\* VersionSet.addVersions: env holds the repository the set reads
\* (vmap, children, vtags, fuel).
\* The body of the loop of addVersions for the closure c of one version: every
\* version of the closure and every tag of these versions is pushed.
AddClosure(set, c, vt) ==
  IF ~c.ok THEN [set EXCEPT !.ok = FALSE]
  ELSE [set EXCEPT !.versions = PushAllUnique(@, c.result),
                   !.tags = PushAllUnique(@, Flatten([k \in 1..Len(c.result) |->
                                                        vt[c.result[k]]]))]

RECURSIVE addVersions(_, _, _)
addVersions(set, vs, env) ==
  IF vs = <<>> \/ ~set.ok THEN set
  ELSE addVersions(AddClosure(set, getClosure(env.vmap, env.children, Dig(Head(vs)), env.fuel),
                              env.vtags),
                   Tail(vs), env)

\* VersionSet.addTags
RECURSIVE addTags(_, _, _)
addTags(set, ts, env) ==
  IF ts = <<>> \/ ~set.ok THEN set
  ELSE LET v == getVersion(env.vmap, Head(ts))
       IN  IF v = 0 THEN addTags(set, Tail(ts), env)
           ELSE addTags(addVersions([set EXCEPT !.tags = PushUnique(@, Head(ts))], <<v>>, env),
                        Tail(ts), env)

\* Array.prototype.sort with the comparator key(y) - key(x): descending by
\* key, elements of equal key keep their order (the sort is stable).
RECURSIVE InsertDesc(_, _, _)
InsertDesc(sorted, x, key) ==
  IF sorted = <<>> THEN <<x>>
  ELSE IF key[Head(sorted)] >= key[x] THEN <<Head(sorted)>> \o InsertDesc(Tail(sorted), x, key)
  ELSE <<x>> \o sorted

RECURSIVE SortDesc(_, _, _)
SortDesc(s, acc, key) ==
  IF s = <<>> THEN acc ELSE SortDesc(Tail(s), InsertDesc(acc, Head(s), key), key)

EmptySet == [ok |-> TRUE, tags |-> <<>>, versions |-> <<>>]

\* config.keepNtagged / config.keepNuntagged: a negative number stands for null.
IsSet(n) == n >= 0

\* c_tags: the most recent remaining tags to keep.
c_tagsOf(cfg, tagsRest) ==
  IF IsSet(cfg.keepNtagged) THEN Slice(tagsRest, 0, cfg.keepNtagged) ELSE tagsRest

\* d_tags: the remaining tags to delete.
d_tagsOf(cfg, tagsRest) ==
  IF IsSet(cfg.keepNtagged) THEN Slice(tagsRest, cfg.keepNtagged, Len(tagsRest)) ELSE <<>>

\* e_versions with an unset keep-n-untagged read as 0.
e_versionsOf_unsetIsZero(cfg, imagesRest) ==
  Slice(imagesRest, 0, IF IsSet(cfg.keepNuntagged) THEN cfg.keepNuntagged ELSE 0)

\* e_versions: the most recent remaining untagged images to keep.
e_versionsOf(cfg, imagesRest) ==
  IF IsSet(cfg.keepNuntagged) THEN Slice(imagesRest, 0, cfg.keepNuntagged) ELSE imagesRest

\* f_versions without the candidates beyond the kept ones.
f_versionsOf_none(imagesRest, e_versions) == <<>>

f_versionsOf(imagesRest, e_versions) ==
  SelectSeq(imagesRest, LAMBDA v : ~Includes(e_versions, v))

\* tagsDelete without the filter on keep.tags.
tagsDeleteOf_unfiltered(remove, keep) == remove.tags

\* remove.tags.filter(tag => !keep.tags.includes(tag))
tagsDeleteOf(remove, keep) == SelectSeq(remove.tags, LAMBDA t : ~Includes(keep.tags, t))

\* remove.versions.filter(v => !keep.versions.includes(v))
versionsDeleteOf(remove, keep) ==
  SelectSeq(remove.versions, LAMBDA v : ~Includes(keep.versions, v))

\* Date.parse(version?.updated_at ?? '1970-01-01T00:00:00Z')
updated_at(recs, v) == IF v = 0 THEN 0 ELSE recs[v].updated_at

\* .sort(...) of the remaining tags: by the updated_at of the tag's version.
SortTags(s, vmap, recs) ==
  SortDesc(s, <<>>, [t \in Range(s) |-> updated_at(recs, getVersion(vmap, t))])

\* .sort(...) of the remaining images.
SortVersions(s, recs) == SortDesc(s, <<>>, [v \in Range(s) |-> updated_at(recs, v)])

\* tagsRest: the tags in neither set, most recent first.
tagsRestOf(allTags, remove, keep, vmap, recs) ==
  SortTags(SelectSeq(allTags, LAMBDA t : ~Includes(remove.tags, t) /\ ~Includes(keep.tags, t)),
           vmap, recs)

\* imagesRest: the roots in neither set that are no attestations, most recent
\* first.
imagesRestOf(rootSeq, remove, keep, ty, recs) ==
  SortVersions(SelectSeq(rootSeq, LAMBDA v : /\ ~Includes(remove.versions, v)
                                             /\ ~Includes(keep.versions, v)
                                             /\ ty[v] # "attestation"),
               recs)

\* The part of CleanupAction.run that determines the tags and the versions to
\* delete, statement by statement.  env holds the configuration and the
\* repository the run reads; p holds the constants computed so far.
MatchedTags(env) ==
  [a_tags |-> IF env.cfg.includeTags # ""
                THEN matchItems(env.cfg.includeTags, getTags(env.tags, env.vmap, env.type))
              ELSE <<>>,
   b_tags |-> IF env.cfg.excludeTags # ""
                THEN matchItems(env.cfg.excludeTags, getTags(env.tags, env.vmap, env.type))
              ELSE <<>>]

AddMatchedTags(env, p) ==
  p @@ [remove1 |-> addTags(EmptySet, p.a_tags, env),
        keep1 |-> addTags(EmptySet, p.b_tags, env)]

RemainingTags(env, p) ==
  p @@ [tagsRest |-> tagsRestOf(getTags(env.tags, env.vmap, env.type),
                                p.remove1, p.keep1, env.vmap, env.recs)]

SplitRemainingTags(env, p) ==
  p @@ [c_tags |-> c_tagsOf(env.cfg, p.tagsRest), d_tags |-> d_tagsOf(env.cfg, p.tagsRest)]

AddRemainingTags(env, p) ==
  p @@ [keepTagged |-> addTags(p.keep1, p.c_tags, env),
        removeTagged |-> addTags(p.remove1, p.d_tags, env)]

RemainingImages(env, p) ==
  p @@ [imagesRest |-> imagesRestOf(env.roots, p.removeTagged, p.keepTagged, env.type, env.recs)]

KeptImages(env, p) ==
  p @@ [e_versions |-> e_versionsOf(env.cfg, p.imagesRest)]

AddKeptImages(env, p) ==
  p @@ [keep |-> addVersions(p.keepTagged, p.e_versions, env),
        f_versions |-> f_versionsOf(p.imagesRest, p.e_versions)]

AddRemovedImages(env, p) ==
  p @@ [remove |-> addVersions(p.removeTagged, p.f_versions, env)]

\* ok = FALSE when getClosure did not return (the run fails).
FinalSets(p) ==
  [ok |-> p.remove.ok /\ p.keep.ok,
   a_tags |-> p.a_tags, b_tags |-> p.b_tags, tagsRest |-> p.tagsRest,
   c_tags |-> p.c_tags, d_tags |-> p.d_tags,
   imagesRest |-> p.imagesRest, e_versions |-> p.e_versions, f_versions |-> p.f_versions,
   removeTagged |-> p.removeTagged, keepTagged |-> p.keepTagged,
   remove |-> p.remove, keep |-> p.keep,
   tagsDelete |-> tagsDeleteOf(p.remove, p.keep),
   versionsDelete |-> versionsDeleteOf(p.remove, p.keep)]

PlanIn(env) ==
  FinalSets(
    AddRemovedImages(env,
      AddKeptImages(env,
        KeptImages(env,
          RemainingImages(env,
            AddRemainingTags(env,
              SplitRemainingTags(env,
                RemainingTags(env,
                  AddMatchedTags(env, MatchedTags(env))))))))))

DeterminePlan(cfg, recs, vmap, tagSeq, rootSeq, vt, ch, ty) ==
  PlanIn([cfg |-> cfg, recs |-> recs, vmap |-> vmap, tags |-> tagSeq, roots |-> rootSeq,
          vtags |-> vt, children |-> ch, type |-> ty, fuel |-> Cardinality(DOMAIN ch) + 1])

----------------------------------------------------------------------------
(* The in-memory package repository (GithubPackageRepo).  A repository      *)
(* state m is a record of the fields versions, tags, digests,               *)
(* uniqueVersions, roots and of the node fields of the version objects.     *)

EmptyFn == [x \in {} |-> 0]

Put(m, k, v) == [x \in DOMAIN m \cup {k} |-> IF x = k THEN v ELSE m[x]]

Remove(m, ks) == [x \in DOMAIN m \ ks |-> m[x]]

Mem == [versions |-> versions, tags |-> tags, digests |-> digests,
        uniqueVersions |-> uniqueVersions, roots |-> roots, vtags |-> vtags,
        parent |-> parent, children |-> children, type |-> type]

SetMem(m) ==
  /\ versions' = m.versions
  /\ tags' = m.tags
  /\ digests' = m.digests
  /\ uniqueVersions' = m.uniqueVersions
  /\ roots' = m.roots
  /\ vtags' = m.vtags
  /\ parent' = m.parent
  /\ children' = m.children
  /\ type' = m.type

ClearedMem == [versions |-> EmptyFn, tags |-> <<>>, digests |-> {},
               uniqueVersions |-> <<>>, roots |-> <<>>, vtags |-> EmptyFn,
               parent |-> EmptyFn, children |-> EmptyFn, type |-> EmptyFn]

RECURSIVE PutAll(_, _, _)
PutAll(m, ks, v) == IF ks = <<>> THEN m ELSE PutAll(Put(m, Head(ks), v), Tail(ks), v)

\* new PackageVersionExtModel(version0, manifest) followed by addVersion: the
\* object v is created with the tags of the listing and registered under its
\* digest, its id and each of its tags.  The object is new, so that
\* uniqueVersions.add(version) always adds: a version that is listed again
\* while its earlier object is still in the set is in the set twice.
addVersion(m, v, rec) ==
  [m EXCEPT !.versions = PutAll(Put(Put(@, Dig(v), v), Id(v), v), rec.tags, v),
            !.digests = @ \cup {Dig(v)},
            !.tags = PushAllUnique(@, rec.tags),
            !.uniqueVersions = Append(@, v),
            !.vtags = Put(@, v, rec.tags),
            !.parent = Put(@, v, 0),
            !.children = Put(@, v, <<>>),
            !.type = Put(@, v, "unknown")]

RECURSIVE addVersionsOf(_, _, _)
addVersionsOf(m, vs, recs) ==
  IF vs = <<>> THEN m ELSE addVersionsOf(addVersion(m, Head(vs), recs[Head(vs)]), Tail(vs), recs)

\* The versions the Packages API lists, in the order of the listing.
Listing(repo) == SelectSeq([i \in 1..Len(repo.ver) |-> i], LAMBDA i : i \in repo.live)

\* this.roots = scanRoots(this.uniqueVersions, this.getVersion): ok = FALSE
\* when scanRoots threw; the nodes keep what scanRoots had done to them and
\* this.roots is not assigned.
Scanned(m, r) ==
  [ok |-> r.ok,
   m |-> [m EXCEPT !.parent = r.parent, !.children = r.children, !.type = r.type,
                   !.roots = IF r.ok THEN r.roots ELSE @]]

Rescan(m, recs) ==
  Scanned(m, scanRoots(m.uniqueVersions, m.versions, recs, m.vtags,
                       [ok |-> TRUE, parent |-> m.parent, children |-> m.children,
                        type |-> m.type]))

\* fetchVersions: for each version of the listing, in order, fetchManifest and
\* then fn(version).  The GET of a manifest the registry does not have is
\* answered 404 and axios throws; nothing catches the error on the way out of
\* fetchVersions, so the versions listed before it have been handed to fn and
\* the others have not (ok = FALSE).
RECURSIVE FetchedUpTo(_, _)
FetchedUpTo(listing, notFound) ==
  IF listing = <<>> THEN [ok |-> TRUE, vs |-> <<>>]
  ELSE IF Head(listing) \in notFound THEN [ok |-> FALSE, vs |-> <<>>]
  ELSE LET rest == FetchedUpTo(Tail(listing), notFound)
       IN  [ok |-> rest.ok, vs |-> <<Head(listing)>> \o rest.vs]

fetchVersions(repo) == FetchedUpTo(Listing(repo), repo.notFound)

\* loadVersions: clears the maps, fetches the versions and, unless that threw,
\* assigns this.roots = scanRoots(...).
LoadInto(m, fetched, recs) == IF fetched.ok THEN Rescan(m, recs) ELSE [ok |-> FALSE, m |-> m]

LoadFetched(fetched, recs) == LoadInto(addVersionsOf(ClearedMem, fetched.vs, recs), fetched, recs)

loadVersions(repo) == LoadFetched(fetchVersions(repo), repo.ver)

\* s without the last occurrence of x.
WithoutLast(s, x) ==
  IF ~Includes(s, x) THEN s
  ELSE LET last == CHOOSE i \in 1..Len(s) : s[i] = x /\ \A j \in (i + 1)..Len(s) : s[j] # x
       IN  [k \in 1..(Len(s) - 1) |-> IF k < last THEN s[k] ELSE s[k + 1]]

\* deleteVersion, the removal from the maps and sets: the keys of the version
\* and the object the key resolved to, which is the one added last.
Unregistered(m, v) ==
  [m EXCEPT !.digests = @ \ {Dig(v)},
            !.versions = Remove(@, {Dig(v), Id(v)} \cup Range(m.vtags[v])),
            !.tags = Filter(@, Range(@) \ Range(m.vtags[v])),
            !.uniqueVersions = WithoutLast(@, v)]

\* deleteVersion, after the DeleteVersion request (if any) has succeeded:
\* removes the version from the maps and sets and rebuilds the forest.
forgetVersion(m, v, recs) == Rescan(Unregistered(m, v), recs)

\* The earlier object of a version that deleteTag has listed again and
\* deleted: it is still in uniqueVersions, with the tags deleteTag left it.
EarlierObject(m, v, tag) ==
  IF Includes(m.uniqueVersions, v) THEN [m EXCEPT !.vtags[v] = Without(@, tag)] ELSE m

\* deleteVersion(tag) at the end of deleteTag.
forgetRelisted(m, v, tag, recs) == Rescan(EarlierObject(Unregistered(m, v), v, tag), recs)

\* deleteTag: removes the tag from the version that carries it and from the
\* maps and sets.
forgetTag(m, tag) ==
  LET version == getVersion(m.versions, tag)
  IN  [m EXCEPT !.vtags[version] = Without(@, tag),
                !.tags = Without(@, tag),
                !.versions = Remove(@, {tag})]

----------------------------------------------------------------------------
(* Inputs: package repositories and configurations.                         *)

MaxKeep == 1
MaxTime == 2
maxConcurrency == 3

Ver(ts, ms, subj, layers, t) ==
  [tags |-> ts, manifests |-> ms, hasManifests |-> Len(ms) > 0, subject |-> subj,
   layers |-> layers, updated_at |-> t]

Image(ts, t) == Ver(ts, <<>>, 0, "image", t)
Index(ts, ms, t) == Ver(ts, ms, 0, "absent", t)

\* A repository: the versions with their manifests, the versions the Packages
\* API lists, and the listed versions whose manifest the registry does not have.
Repo(vs) == [ver |-> vs, live |-> 1..Len(vs), notFound |-> {}]

\* The version an earlier run has put under the tag of an index and not
\* deleted: a manifest with manifests = [].
EmptiedIndex(ts, t) == [Index(ts, <<>>, t) EXCEPT !.hasManifests = TRUE]

\* Repositories an earlier run has left in the middle of a tag deletion.
InterruptedRunRepos ==
  { \* the index that has lost its tag, its child, and the emptied index
    Repo(<<Index(<<>>, <<2>>, 1), Image(<<>>, 1), EmptiedIndex(<<Tag(1)>>, 2)>>),
    \* an emptied index that carries two tags, and a tagged image
    Repo(<<EmptiedIndex(<<Tag(1), Tag(2)>>, 1), Image(<<Tag(3)>>, 2)>>) }

\* Repositories with a listed version whose manifest is absent.
ManifestNotFoundRepos ==
  { \* the second of two tagged images
    [Repo(<<Image(<<Tag(1)>>, 1), Image(<<Tag(2)>>, 2)>>) EXCEPT !.notFound = {2}],
    \* the first of a tagged and an untagged image
    [Repo(<<Image(<<Tag(1)>>, 2), Image(<<>>, 1)>>) EXCEPT !.notFound = {1}],
    \* a child of a multi-arch image
    [Repo(<<Index(<<Tag(1)>>, <<2, 3>>, 2), Image(<<>>, 1), Image(<<>>, 1)>>)
       EXCEPT !.notFound = {3}] }

Times == 1..MaxTime

GenericRepos ==
  { Repo(<<>>),
    \* two tagged single-arch images
    Repo(<<Image(<<Tag(1)>>, 1), Image(<<Tag(2)>>, 2)>>),
    \* one version carrying two tags, and an untagged image
    Repo(<<Image(<<Tag(1), Tag(2)>>, 1), Image(<<>>, 2)>>),
    \* a multi-arch image with two untagged children
    Repo(<<Index(<<Tag(1)>>, <<2, 3>>, 2), Image(<<>>, 1), Image(<<>>, 1)>>),
    \* a multi-arch image with a tagged child, and an untagged image
    Repo(<<Index(<<Tag(1)>>, <<2>>, 2), Image(<<Tag(2)>>, 1), Image(<<>>, 3)>>),
    \* an untagged multi-arch image with a tagged child
    Repo(<<Index(<<>>, <<2>>, 2), Image(<<Tag(1)>>, 1)>>),
    \* nested indexes
    Repo(<<Index(<<Tag(1)>>, <<2>>, 1), Index(<<>>, <<3>>, 1), Image(<<Tag(2)>>, 1)>>),
    \* an index listing a digest that is not in the repository
    Repo(<<Index(<<Tag(1)>>, <<2, 99>>, 1), Image(<<>>, 1)>>),
    \* an attestation with a subject (OCI 1.1), and another untagged image
    Repo(<<Image(<<>>, 1), Ver(<<>>, <<>>, 1, "intoto", 2), Image(<<>>, 2)>>),
    \* a tagged referrer with a subject whose layers are not in-toto
    Repo(<<Image(<<Tag(1)>>, 1), Ver(<<Tag(2)>>, <<>>, 1, "image", 2)>>),
    \* an attestation attached by a referrers tag, and another tagged image
    Repo(<<Image(<<Tag(1)>>, 1), Ver(<<RefTag(1)>>, <<>>, 0, "intoto", 2), Image(<<Tag(2)>>, 3)>>),
    \* a referrers tag on a version whose layers are not in-toto
    Repo(<<Image(<<Tag(1)>>, 1), Ver(<<RefTag(1)>>, <<>>, 0, "image", 2)>>),
    \* a referrers tag on a version without layers
    Repo(<<Image(<<Tag(1)>>, 2), Ver(<<RefTag(1), Tag(2)>>, <<>>, 0, "absent", 1)>>),
    \* a referrers tag that points to a child of an index
    Repo(<<Index(<<Tag(1)>>, <<2>>, 1), Image(<<>>, 1), Ver(<<RefTag(2)>>, <<>>, 0, "intoto", 2)>>),
    \* an attestation whose subject is not in the repository
    Repo(<<Image(<<Tag(1)>>, 1), Ver(<<>>, <<>>, 99, "intoto", 2)>>),
    \* a child of an index that also has a subject
    Repo(<<Index(<<Tag(1)>>, <<2>>, 1), Ver(<<>>, <<>>, 3, "image", 1), Image(<<Tag(2)>>, 2)>>),
    \* two indexes sharing a child
    Repo(<<Index(<<Tag(1)>>, <<3>>, 1), Index(<<Tag(2)>>, <<3>>, 2), Image(<<>>, 1)>>),
    \* subjects forming a cycle
    Repo(<<Ver(<<Tag(1)>>, <<>>, 2, "absent", 1), Ver(<<>>, <<>>, 1, "absent", 2)>>),
    \* a version that is its own subject
    Repo(<<Ver(<<Tag(1)>>, <<>>, 1, "image", 1)>>),
    \* two referrers tags pointing to different versions
    Repo(<<Image(<<Tag(1)>>, 1), Image(<<Tag(2)>>, 1),
           Ver(<<RefTag(1), RefTag(2)>>, <<>>, 0, "intoto", 2)>>),
    \* a manifest with an empty layers list, and a minimal manifest
    Repo(<<Ver(<<Tag(1)>>, <<>>, 0, "empty", 1), Ver(<<Tag(2)>>, <<>>, 0, "absent", 2)>>) }
  \cup { Repo(<<Image(<<Tag(1)>>, t[1]), Image(<<Tag(2)>>, t[2]), Image(<<Tag(3)>>, t[3])>>) :
           t \in Times \X Times \X Times }
  \cup { Repo(<<Image(<<>>, t[1]), Image(<<>>, t[2]), Image(<<>>, t[3])>>) :
           t \in Times \X Times \X Times }

IncludePatterns == {"", "^t1$", ".*"}
ExcludePatterns == {"", "^t1$", "^t2$", "^sha256-"}

GenericConfigs ==
  [includeTags : IncludePatterns, excludeTags : ExcludePatterns,
   keepNtagged : (-1)..MaxKeep, keepNuntagged : (-1)..MaxKeep, dryRun : BOOLEAN]

\* Index X (tag 1) lists c1 and c2, index Y (tag 2) lists c1 and c3.
SharedChildRepo ==
  Repo(<<Index(<<Tag(1)>>, <<3, 4>>, 1), Index(<<Tag(2)>>, <<3, 5>>, 2),
         Image(<<>>, 1), Image(<<>>, 1), Image(<<>>, 2)>>)

\* Ten single-arch roots tagged 0..9 with ascending updated_at.
TenRootsRepo == Repo([i \in 1..10 |-> Image(<<Tag(i - 1)>>, i)])

Scenarios ==
  { [repository |-> SharedChildRepo,
     config |-> [includeTags |-> "^t1$", excludeTags |-> "^t2$",
                 keepNtagged |-> -1, keepNuntagged |-> -1, dryRun |-> d]] : d \in BOOLEAN }
  \cup
  { [repository |-> TenRootsRepo,
     config |-> [includeTags |-> "", excludeTags |-> "",
                 keepNtagged |-> 3, keepNuntagged |-> -1, dryRun |-> d]] : d \in BOOLEAN }

Inputs ==
  { [repository |-> r, config |-> c] :
      r \in GenericRepos \cup InterruptedRunRepos \cup ManifestNotFoundRepos,
      c \in GenericConfigs } \cup Scenarios

NoPlan == [ok |-> FALSE, a_tags |-> <<>>, b_tags |-> <<>>, tagsRest |-> <<>>,
           c_tags |-> <<>>, d_tags |-> <<>>, imagesRest |-> <<>>,
           e_versions |-> <<>>, f_versions |-> <<>>,
           removeTagged |-> EmptySet, keepTagged |-> EmptySet,
           remove |-> EmptySet, keep |-> EmptySet,
           tagsDelete |-> <<>>, versionsDelete |-> <<>>]

\* No call of parseManifest has been made.
NoCall == [kind |-> "none"]

\* The state of a GithubPackageRepo and of run after construction, with run
\* at position p.
Constructed(p) ==
  /\ versions = EmptyFn
  /\ tags = <<>>
  /\ digests = {}
  /\ uniqueVersions = <<>>
  /\ roots = <<>>
  /\ vtags = EmptyFn
  /\ parent = EmptyFn
  /\ children = EmptyFn
  /\ type = EmptyFn
  /\ pc = p
  /\ plan = NoPlan
  /\ tagIdx = 1
  /\ tagStep = "idle"
  /\ verIdx = 0
  /\ inFlight = EmptyFn
  /\ awaiting = FALSE
  /\ deletedCount = 0
  /\ calls = [put |-> 0, list |-> 0, del |-> <<>>]

Init ==
  /\ \E i \in Inputs : config = i.config /\ repository = i.repository
  /\ Constructed("load")
  /\ jsonString = NoCall
  /\ manifest = NoCall

----------------------------------------------------------------------------
(* CleanupAction.run, one action per stretch between two await points.      *)

\* Where run is after an error has reached its catch block: core.setFailed
\* has been called and run returns.
AfterThrow == "failed"

runVars == <<plan, tagIdx, tagStep, verIdx, inFlight, awaiting, deletedCount>>

\* await this.repo.loadVersions()
Load ==
  /\ pc = "load"
  /\ LET r == loadVersions(repository)
     IN  /\ SetMem(r.m)
         /\ pc' = IF r.ok THEN "plan" ELSE AfterThrow
  /\ calls' = [calls EXCEPT !.list = @ + 1]
  /\ UNCHANGED <<parserVars, config, repository, runVars>>

\* 'Determine tags to delete.' ... 'Final set of tags to delete.'
Select ==
  /\ pc = "plan"
  /\ LET p == DeterminePlan(config, repository.ver, versions, tags, roots, vtags, children, type)
     IN  /\ plan' = IF p.ok THEN p ELSE NoPlan
         /\ pc' = IF p.ok THEN "log" ELSE AfterThrow
  /\ UNCHANGED <<parserVars, config, repository, repoVars, calls, tagIdx, tagStep, verIdx,
                 inFlight, awaiting, deletedCount>>

\* 'Final set of versions to delete.': scanRoots over versionsDelete, whose
\* roots are rendered.
LogPlan ==
  /\ pc = "log"
  /\ LET r == scanRoots(plan.versionsDelete, versions, repository.ver, vtags,
                        [ok |-> TRUE, parent |-> parent, children |-> children, type |-> type])
     IN  /\ parent' = r.parent
         /\ children' = r.children
         /\ type' = r.type
         /\ pc' = IF r.ok THEN "tags" ELSE AfterThrow
  /\ UNCHANGED <<parserVars, config, repository, versions, tags, digests, uniqueVersions, roots, vtags,
                 calls, runVars>>

CurrentTag == plan.tagsDelete[tagIdx]

\* The dry-run guards: deleteTag puts the emptied manifest, deleteTag lists the
\* versions again and deletes the version found, deleteVersion sends the
\* DeleteVersion request.
PutsManifest(cfg) == ~cfg.dryRun
Relists(cfg) == ~cfg.dryRun
SendsDeleteVersion_always(cfg) == TRUE
SendsDeleteVersion(cfg) == ~cfg.dryRun

\* deleteTag once the manifest has been put (or the put was skipped): the tag
\* is removed in memory; then the versions are listed again, or deleteTag
\* returns.  c is the record of the requests sent so far.
TagRemoved(c) ==
  /\ SetMem(forgetTag(Mem, CurrentTag))
  /\ IF Relists(config)
       THEN /\ calls' = [c EXCEPT !.list = @ + 1]
            /\ tagStep' = "relist"
            /\ tagIdx' = tagIdx
     ELSE /\ calls' = c
          /\ tagStep' = "idle"
          /\ tagIdx' = tagIdx + 1

\* deleteTag up to its first await: in a dry run the whole of deleteTag.
StartTag ==
  /\ pc = "tags"
  /\ tagStep = "idle"
  /\ tagIdx <= Len(plan.tagsDelete)
  /\ IF getVersion(versions, CurrentTag) = 0
       THEN /\ pc' = AfterThrow
            /\ UNCHANGED <<repoVars, calls, tagIdx, tagStep>>
     ELSE IF PutsManifest(config)
       THEN /\ calls' = [calls EXCEPT !.put = @ + 1]
            /\ tagStep' = "put"
            /\ UNCHANGED <<pc, repoVars, tagIdx>>
     ELSE /\ TagRemoved(calls)
          /\ pc' = pc
  /\ UNCHANGED <<parserVars, config, repository, plan, verIdx, inFlight, awaiting, deletedCount>>

\* The manifest deleteTag puts under the tag: the clone without its child
\* manifests or, when it has none, without its layers.
GhostManifest(rec, tag) ==
  IF rec.hasManifests THEN [rec EXCEPT !.manifests = <<>>, !.tags = <<tag>>]
  ELSE [rec EXCEPT !.layers = "empty", !.tags = <<tag>>]

\* The registry after PUT manifests/<tag>: a new version carries the tag and
\* the version that carried it has lost it.
AfterPut(repo, rec, tag) ==
  [ver |-> Append([i \in 1..Len(repo.ver) |->
                     [repo.ver[i] EXCEPT !.tags = Without(@, tag)]],
                  GhostManifest(rec, tag)),
   live |-> repo.live \cup {Len(repo.ver) + 1},
   notFound |-> repo.notFound]

\* The digests the registry can give the manifest put under the tag: a new
\* one, or, when the clone has nothing to empty and so equals the manifest of
\* the version, the digest of that version (the digest is that of the bytes
\* sent, which are those of the version if the version was put by deleteTag).
PutDigests(rec) ==
  {"new"} \cup (IF [GhostManifest(rec, Tag(0)) EXCEPT !.tags = rec.tags] = rec
                  THEN {"same"} ELSE {})

\* putManifest returns or throws; on return the tag is removed from the
\* version in memory and the versions are listed again.
PutDone ==
  /\ pc = "tags"
  /\ tagStep = "put"
  /\ \E ok \in BOOLEAN, digest \in PutDigests(repository.ver[getVersion(versions, CurrentTag)]) :
       IF ok
         THEN /\ repository' = IF digest = "same" THEN repository
                               ELSE AfterPut(repository,
                                             repository.ver[getVersion(versions, CurrentTag)],
                                             CurrentTag)
              /\ TagRemoved(calls)
              /\ pc' = pc
       ELSE /\ pc' = AfterThrow
            /\ UNCHANGED <<repository, repoVars, calls, tagStep, tagIdx>>
  /\ UNCHANGED <<parserVars, config, plan, verIdx, inFlight, awaiting, deletedCount>>

\* fetchVersions returns or throws; the versions of the listing that carry
\* the tag are added, and the version found for the tag is deleted.
RelistDone ==
  /\ pc = "tags"
  /\ tagStep = "relist"
  /\ \E outcome \in (IF fetchVersions(repository).ok THEN {"listed", "missing"} ELSE {})
                      \cup {"error"} :
       LET carrying == SelectSeq(fetchVersions(repository).vs,
                                 LAMBDA i : Includes(repository.ver[i].tags, CurrentTag))
           m == addVersionsOf(Mem, IF outcome = "listed" THEN carrying ELSE <<>>,
                              repository.ver)
           version0 == getVersion(m.versions, CurrentTag)
           r == forgetVersion(m, version0, repository.ver)
       IN  IF outcome = "error"
             THEN /\ pc' = AfterThrow
                  /\ UNCHANGED <<repoVars, calls, tagStep, tagIdx>>
           ELSE IF version0 = 0
             THEN /\ SetMem(m)
                  /\ pc' = AfterThrow
                  /\ UNCHANGED <<calls, tagStep, tagIdx>>
           ELSE IF SendsDeleteVersion(config)
             THEN /\ SetMem(m)
                  /\ calls' = [calls EXCEPT !.del = Append(@, version0)]
                  /\ tagStep' = "delete"
                  /\ UNCHANGED <<pc, tagIdx>>
           ELSE /\ SetMem(r.m)
                /\ pc' = IF r.ok THEN pc ELSE AfterThrow
                /\ tagIdx' = IF r.ok THEN tagIdx + 1 ELSE tagIdx
                /\ tagStep' = IF r.ok THEN "idle" ELSE tagStep
                /\ calls' = calls
  /\ UNCHANGED <<parserVars, config, repository, plan, verIdx, inFlight, awaiting, deletedCount>>

\* The DeleteVersion request of deleteVersion(tag) returns or throws.
TagDeleteDone ==
  /\ pc = "tags"
  /\ tagStep = "delete"
  /\ \E ok \in BOOLEAN :
       LET version == getVersion(versions, CurrentTag)
           r == forgetRelisted(Mem, version, CurrentTag, repository.ver)
       IN  IF ok
             THEN /\ repository' = [repository EXCEPT !.live = @ \ {version}]
                  /\ SetMem(r.m)
                  /\ pc' = IF r.ok THEN pc ELSE AfterThrow
                  /\ tagIdx' = IF r.ok THEN tagIdx + 1 ELSE tagIdx
                  /\ tagStep' = IF r.ok THEN "idle" ELSE tagStep
           ELSE /\ pc' = AfterThrow
                /\ UNCHANGED <<repository, repoVars, tagIdx, tagStep>>
  /\ UNCHANGED <<parserVars, config, plan, calls, verIdx, inFlight, awaiting, deletedCount>>

\* The loop over tagsDelete has ended.
TagsDone ==
  /\ pc = "tags"
  /\ tagStep = "idle"
  /\ tagIdx > Len(plan.tagsDelete)
  /\ pc' = "versions"
  /\ UNCHANGED <<parserVars, config, repository, repoVars, calls, runVars>>

InFlightSize == Cardinality(DOMAIN inFlight)

\* The wait with > in place of >=.
HitMaxConcurrency_late(size) == size > maxConcurrency

\* The condition under which the loop waits for Promise.race(inFlight).
HitMaxConcurrency(size) == size >= maxConcurrency

\* One iteration of the loop over versionsDelete: the wrapper is started and
\* runs deleteVersion up to its first await (in a dry run, to its end).
StartVersion ==
  /\ pc = "versions"
  /\ ~awaiting
  /\ verIdx < Len(plan.versionsDelete)
  /\ LET v == plan.versionsDelete[verIdx + 1]
         version == getVersion(versions, Id(v))
         r == forgetVersion(Mem, version, repository.ver)
         status == IF version = 0 THEN "rejected"
                   ELSE IF SendsDeleteVersion(config) THEN "rest"
                   ELSE IF r.ok THEN "resolved" ELSE "rejected"
     IN  /\ IF status \in {"resolved", "rejected"} /\ version # 0
              THEN SetMem(r.m) ELSE UNCHANGED repoVars
         /\ calls' = IF status = "rest"
                       THEN [calls EXCEPT !.del = Append(@, version)] ELSE calls
         /\ inFlight' = Put(inFlight, v, status)
         /\ awaiting' = HitMaxConcurrency(InFlightSize + 1)
  /\ verIdx' = verIdx + 1
  /\ UNCHANGED <<parserVars, config, repository, pc, plan, tagIdx, tagStep, deletedCount>>

\* deletedCount++ follows await this.repo.deleteVersion(v.id) inside the try
\* block: the deletion is counted when deleteVersion has returned (returned =
\* TRUE) and not when it has thrown.
Counted_always(returned) == TRUE

Counted(returned) == returned

\* Settle with the version removed from memory whether or not the request
\* succeeded.
Settle_forgets ==
  /\ pc = "versions"
  /\ \E v \in DOMAIN inFlight, ok \in BOOLEAN :
       /\ inFlight[v] = "resolved" => ok
       /\ inFlight[v] = "rejected" => ~ok
       /\ LET r == forgetVersion(Mem, v, repository.ver)
          IN  IF inFlight[v] = "rest"
                THEN /\ repository' = IF ok THEN [repository EXCEPT !.live = @ \ {v}]
                                      ELSE repository
                     /\ SetMem(r.m)
                     /\ deletedCount' = IF Counted(r.ok /\ ok) THEN deletedCount + 1
                                        ELSE deletedCount
              ELSE /\ deletedCount' = IF Counted(ok) THEN deletedCount + 1 ELSE deletedCount
                   /\ UNCHANGED <<repository, repoVars>>
       /\ inFlight' = Remove(inFlight, {v})
  /\ awaiting' = FALSE
  /\ UNCHANGED <<parserVars, config, pc, plan, tagIdx, tagStep, verIdx, calls>>

\* A wrapper settles: the DeleteVersion request returns or throws, the
\* version is removed from memory, deletedCount is incremented on success and
\* the promise leaves inFlight.
Settle ==
  /\ pc = "versions"
  /\ \E v \in DOMAIN inFlight, ok \in BOOLEAN :
       /\ inFlight[v] = "resolved" => ok
       /\ inFlight[v] = "rejected" => ~ok
       /\ LET r == forgetVersion(Mem, v, repository.ver)
          IN  IF inFlight[v] = "rest" /\ ok
                THEN /\ repository' = [repository EXCEPT !.live = @ \ {v}]
                     /\ SetMem(r.m)
                     /\ deletedCount' = IF Counted(r.ok) THEN deletedCount + 1 ELSE deletedCount
              ELSE /\ deletedCount' = IF Counted(ok) THEN deletedCount + 1 ELSE deletedCount
                   /\ UNCHANGED <<repository, repoVars>>
       /\ inFlight' = Remove(inFlight, {v})
  /\ awaiting' = FALSE
  /\ UNCHANGED <<parserVars, config, pc, plan, tagIdx, tagStep, verIdx, calls>>

\* Finish without the wait for the promises still in flight.
Finish_noWait ==
  /\ pc = "versions"
  /\ ~awaiting
  /\ verIdx = Len(plan.versionsDelete)
  /\ pc' = "done"
  /\ UNCHANGED <<parserVars, config, repository, repoVars, calls, runVars>>

\* All promises have settled: the summary is logged and run returns.
Finish ==
  /\ pc = "versions"
  /\ ~awaiting
  /\ verIdx = Len(plan.versionsDelete)
  /\ InFlightSize = 0
  /\ pc' = "done"
  /\ UNCHANGED <<parserVars, config, repository, repoVars, calls, runVars>>

Next ==
  \/ Load
  \/ Select
  \/ LogPlan
  \/ StartTag
  \/ PutDone
  \/ RelistDone
  \/ TagDeleteDone
  \/ TagsDone
  \/ StartVersion
  \/ Settle
  \/ Finish

Spec == Init /\ [][Next]_vars

\* The runs that delete everything tagged (plans of every size the
\* repositories allow) and the two scenarios.
LiveInputs ==
  { i \in Inputs : \/ i \in Scenarios
                   \/ /\ i.config.includeTags = ".*"
                      /\ i.config.excludeTags = ""
                      /\ ~IsSet(i.config.keepNtagged)
                      /\ i.config.keepNuntagged = 0 }

LiveInit ==
  /\ \E i \in LiveInputs : config = i.config /\ repository = i.repository
  /\ Constructed("load")
  /\ jsonString = NoCall
  /\ manifest = NoCall

\* The condition under which the loop over versionsDelete starts its next
\* iteration; StartVersion is enabled exactly then.
StartVersionEnabled ==
  /\ pc = "versions"
  /\ ~awaiting
  /\ verIdx < Len(plan.versionsDelete)

\* The run under the scheduling the version loop relies on: the event loop
\* resumes run whenever it can go on (StartVersion, Finish), and every
\* deleteVersion call that was started returns or throws (Settle).  The
\* second conjunct is WF_vars(StartVersion) with its enabling condition
\* written out.
LiveSpec ==
  /\ LiveInit
  /\ [][Next]_vars
  /\ ([]<>~StartVersionEnabled \/ []<><<StartVersion>>_vars)
  /\ WF_vars(Settle)
  /\ WF_vars(Finish)

-----------------------------------------------------------------------------
(* parseManifest.  A JavaScript value is a record: kind "undefined", "null"  *)
(* or "number" for a value that is no string, kind "string" with json =      *)
(* NotJson for text JSON.parse rejects, and kind "string" with json = v for  *)
(* the text JSON.stringify(v).  A JSON value v is a record with t "null",    *)
(* "number", "string", "array" or "object"; an object has mediaType (Absent  *)
(* when it has none), layers, manifests and customField.                     *)

MediaTypes ==
  { "application/vnd.oci.image.manifest.v1+json",
    "application/vnd.oci.image.index.v1+json",
    "application/vnd.docker.distribution.manifest.list.v2+json",
    "application/vnd.docker.distribution.manifest.v2+json" }

Absent == "(absent)"

NotJson == [t |-> "(no JSON)"]

\* throw new Error('Invalid JSON data')
InvalidJSON == [kind |-> "threw", message |-> "Invalid JSON data"]

\* JSON.parse(jsonString) inside try/catch.
JSONparse(js) == [ok |-> js.json # NotJson, value |-> js.json]

\* manifestSchema.safeParse(parsed): an object whose mediaType is one of the
\* four media types; the other fields are passed through.
manifestSchema(parsed) ==
  [success |-> parsed.t = "object" /\ parsed.mediaType \in MediaTypes, data |-> parsed]

\* The switch with two of the media types taken for each other.
ManifestModel_swapped(data) ==
  [kind |-> "returned",
   class |-> CASE data.mediaType = "application/vnd.oci.image.manifest.v1+json" ->
                    "OCIImageManifestModel"
               [] data.mediaType = "application/vnd.oci.image.index.v1+json" ->
                    "OCIImageIndexModel"
               [] data.mediaType = "application/vnd.docker.distribution.manifest.list.v2+json" ->
                    "DockerImageManifestModel"
               [] data.mediaType = "application/vnd.docker.distribution.manifest.v2+json" ->
                    "DockerManifestListModel",
   data |-> data]

\* switch (data.mediaType): new <variant>Model(data), which is
\* Object.assign(this, data).
ManifestModel(data) ==
  [kind |-> "returned",
   class |-> CASE data.mediaType = "application/vnd.oci.image.manifest.v1+json" ->
                    "OCIImageManifestModel"
               [] data.mediaType = "application/vnd.oci.image.index.v1+json" ->
                    "OCIImageIndexModel"
               [] data.mediaType = "application/vnd.docker.distribution.manifest.list.v2+json" ->
                    "DockerManifestListModel"
               [] data.mediaType = "application/vnd.docker.distribution.manifest.v2+json" ->
                    "DockerImageManifestModel",
   data |-> data]

Validated(result) == IF result.success THEN ManifestModel(result.data) ELSE InvalidJSON

Parsed(parsed) == IF parsed.ok THEN Validated(manifestSchema(parsed.value)) ELSE InvalidJSON

parseManifest(js) == IF js.kind # "string" THEN InvalidJSON ELSE Parsed(JSONparse(js))

\* The arguments parseManifest is called with.
JsonObjects ==
  [t : {"object"},
   mediaType : MediaTypes \cup {Absent, "application/unknown", "application/vnd.custom.type+json",
                                "application/vnd.in-toto+json"},
   layers : {Absent, "empty", "image"},
   manifests : {Absent, "one"},
   customField : {Absent, "should be preserved"}]

JsonValues == {[t |-> x] : x \in {"null", "number", "string", "array"}} \cup JsonObjects

ParserInputs ==
  {[kind |-> k, json |-> NotJson] : k \in {"undefined", "null", "number", "string"}}
    \cup {[kind |-> "string", json |-> v] : v \in JsonValues}

\* A run is constructed but not started; parseManifest is about to be called.
ParserInit ==
  /\ config = [includeTags |-> "", excludeTags |-> "", keepNtagged |-> -1,
               keepNuntagged |-> -1, dryRun |-> TRUE]
  /\ repository = Repo(<<>>)
  /\ Constructed("parseManifest")
  /\ jsonString \in ParserInputs
  /\ manifest = NoCall

\* One call of parseManifest.
ParseManifest ==
  /\ pc = "parseManifest"
  /\ manifest' = parseManifest(jsonString)
  /\ pc' = "returned"
  /\ UNCHANGED <<jsonString, config, repository, repoVars, calls, runVars>>

ParserNext == ParseManifest

ParserSpec == ParserInit /\ [][ParserNext]_vars

-----------------------------------------------------------------------------
(* linkVersions called on bare nodes, as src/src/tree.test.ts builds them,    *)
(* and on nodes scanRoots has reset.                                          *)

MaxNodes == 3

LinkNodes == 1..MaxNodes

\* The fields of the run that no unit below touches.
RunIdle ==
  /\ plan = NoPlan
  /\ tagIdx = 1
  /\ tagStep = "idle"
  /\ verIdx = 0
  /\ inFlight = EmptyFn
  /\ awaiting = FALSE
  /\ deletedCount = 0
  /\ calls = [put |-> 0, list |-> 0, del |-> <<>>]
  /\ jsonString = NoCall
  /\ manifest = NoCall

\* Nodes as constructed: no parent, no children.
LinkInit ==
  /\ config = [includeTags |-> "", excludeTags |-> "", keepNtagged |-> -1,
               keepNuntagged |-> -1, dryRun |-> TRUE]
  /\ repository = Repo(<<>>)
  /\ versions = EmptyFn
  /\ tags = <<>>
  /\ digests = {}
  /\ uniqueVersions = [v \in LinkNodes |-> v]
  /\ roots = <<>>
  /\ vtags = [v \in LinkNodes |-> <<>>]
  /\ parent = [v \in LinkNodes |-> 0]
  /\ children = [v \in LinkNodes |-> <<>>]
  /\ type = [v \in LinkNodes |-> "unknown"]
  /\ pc = "linkVersions"
  /\ RunIdle

Forest == [ok |-> TRUE, parent |-> parent, children |-> children, type |-> type]

\* One call linkVersions(p, c): it returns the child or throws.
LinkVersions(p, c) ==
  /\ pc = "linkVersions"
  /\ parent' = linkVersions(Forest, p, c).parent
  /\ children' = linkVersions(Forest, p, c).children
  /\ pc' = IF linkVersions(Forest, p, c).ok THEN "returned" ELSE "threw"
  /\ UNCHANGED <<parserVars, config, repository, versions, tags, digests,
                 uniqueVersions, roots, vtags, type, calls, runVars>>

\* The caller goes on to its next call.
LinkReturned ==
  /\ pc = "returned"
  /\ pc' = "linkVersions"
  /\ UNCHANGED <<parserVars, config, repository, repoVars, calls, runVars>>

\* The first loop of scanRoots over the set of versions it is given.
ResetRoots(inU) ==
  /\ pc = "linkVersions"
  /\ parent' = ResetNodes(Forest, inU).parent
  /\ children' = ResetNodes(Forest, inU).children
  /\ type' = ResetNodes(Forest, inU).type
  /\ UNCHANGED <<parserVars, config, repository, versions, tags, digests,
                 uniqueVersions, roots, vtags, pc, calls, runVars>>

LinkNext ==
  \/ \E p, c \in LinkNodes : LinkVersions(p, c)
  \/ LinkReturned
  \/ \E inU \in SUBSET LinkNodes : ResetRoots(inU)

LinkSpec == LinkInit /\ [][LinkNext]_vars

-----------------------------------------------------------------------------
(* getArtifactType called on one version, as the getArtifactType tests of     *)
(* src/src/github-package.test.ts build it: a manifest and a list of tags.    *)

TypedVersions ==
  { Ver(ts, ms, subj, layers, 1) :
      ts \in { <<>>, <<Tag(1)>>, <<RefTag(2)>>, <<Tag(1), Tag(2)>>,
               <<Tag(1), RefTag(2)>>, <<RefTag(2), Tag(1)>>, <<RefTag(2), RefTag(3)>> },
      ms \in { <<>>, <<2>> },
      subj \in { 0, 2 },
      layers \in { "absent", "empty", "intoto", "image" } }

TypeInit ==
  /\ config = [includeTags |-> "", excludeTags |-> "", keepNtagged |-> -1,
               keepNuntagged |-> -1, dryRun |-> TRUE]
  /\ \E v \in TypedVersions : /\ repository = Repo(<<v>>)
                              /\ vtags = [k \in {1} |-> v.tags]
  /\ versions = EmptyFn
  /\ tags = <<>>
  /\ digests = {}
  /\ uniqueVersions = <<1>>
  /\ roots = <<>>
  /\ parent = [k \in {1} |-> 0]
  /\ children = [k \in {1} |-> <<>>]
  /\ type = [k \in {1} |-> "unknown"]
  /\ pc = "getArtifactType"
  /\ RunIdle

\* One call of getArtifactType, its result stored as scanRoots stores it.
GetArtifactType ==
  /\ pc = "getArtifactType"
  /\ type' = [type EXCEPT ![1] = getArtifactType(repository.ver[1], vtags[1])]
  /\ pc' = "returned"
  /\ UNCHANGED <<parserVars, config, repository, versions, tags, digests,
                 uniqueVersions, roots, vtags, parent, children, calls, runVars>>

TypeNext == GetArtifactType

TypeSpec == TypeInit /\ [][TypeNext]_vars

----------------------------------------------------------------------------
(* Properties.                                                              *)

\* The plan has been determined and the forest is the one loadVersions built.
PlanDetermined == pc = "log"

\* Every deletion of the plan has been carried out.
PlanApplied == pc = "done" /\ deletedCount = Len(plan.versionsDelete)

\* The versions reachable from the versions of S through child edges.
RECURSIVE Reach(_, _)
Reach(S, n) ==
  IF n = 0 THEN S
  ELSE Reach(S \cup UNION {Range(children[v]) : v \in S \cap DOMAIN children}, n - 1)

Descendants(v) == Reach({v}, Cardinality(DOMAIN children))

ProperDescendants(v) == Descendants(v) \ {v}

Matches(regexStr, t) == regexStr # "" /\ RegexTest(regexStr, t)

\* The tags the options select from: those of versions that are no attestations.
EligibleTags == {t \in Range(tags) : type[getVersion(versions, t)] # "attestation"}

Owner(t) == getVersion(versions, t)

UpdatedAt(v) == repository.ver[v].updated_at

Deleted == Range(plan.versionsDelete)

AllUnset ==
  /\ config.includeTags = ""
  /\ config.excludeTags = ""
  /\ ~IsSet(config.keepNtagged)
  /\ ~IsSet(config.keepNuntagged)

\* The digests version k refers to: the manifests it lists, its subject and
\* the digests its referrers tags encode.
References(k) ==
  Range(repository.ver[k].manifests)
  \cup (IF repository.ver[k].subject = 0 THEN {} ELSE {repository.ver[k].subject})
  \cup {ReplaceDash(t)[2] : t \in {u \in Range(vtags[k]) : IsReferrerTag(u)}}

\* C1: once the plan has been applied, no version that remains refers, by its
\* manifest list, its subject or a referrers tag, to a version the plan deleted.
C1_NoDanglingReference ==
  PlanApplied => \A k \in Range(uniqueVersions) : References(k) \cap Deleted = {}

\* C2: with include-tags, exclude-tags, keep-n-tagged and keep-n-untagged all
\* unset, the plan deletes no tag and no version, and neither deleteTag nor
\* deleteVersion is ever invoked.
C2_AllUnsetDeletesNothing ==
  AllUnset =>
    /\ plan.tagsDelete = <<>>
    /\ plan.versionsDelete = <<>>
    /\ tagIdx = 1 /\ tagStep = "idle"
    /\ verIdx = 0 /\ InFlightSize = 0 /\ deletedCount = 0
    /\ calls.put = 0 /\ calls.del = <<>>

C2_Witness ==
  /\ AllUnset
  /\ pc = "done"
  /\ Len(tags) > 0
  /\ \E v \in Range(roots) : vtags[v] = <<>> /\ type[v] # "attestation"
  /\ \E v \in Range(uniqueVersions) : parent[v] # 0

C4_TagPlan ==
  PlanDetermined =>
    /\ Range(plan.tagsDelete) =
         ({t \in EligibleTags : Matches(config.includeTags, t)}
            \ {t \in EligibleTags : Matches(config.excludeTags, t)})
         \cup Range(plan.d_tags)
    /\ (/\ \E v \in Range(uniqueVersions) : vtags[v] = <<Tag(1), Tag(2)>>
        /\ config.includeTags = "^t1$"
        /\ config.excludeTags = "^t2$"
        /\ ~IsSet(config.keepNtagged))
       => Range(plan.tagsDelete) = {Tag(1)} /\ plan.versionsDelete = <<>>

SharedChildScenario ==
  /\ repository.ver = SharedChildRepo.ver
  /\ config.includeTags = "^t1$"
  /\ config.excludeTags = "^t2$"
  /\ ~IsSet(config.keepNtagged)
  /\ ~IsSet(config.keepNuntagged)

\* C5: two indexes X (t1, children c1 c2) and Y (t2, children c1 c3) with
\* include-tags ^t1$ and exclude-tags ^t2$: the run loads the repository and
\* plans versions_delete = {X, c2}.
C5_SharedChild ==
  SharedChildScenario =>
    /\ pc # "failed"
    /\ pc \notin {"load", "plan"} => Deleted = {1, 4}

\* C6: in a dry run no manifest is put, no DeleteVersion request is sent and
\* the versions are listed once, by loadVersions, never during tag deletion.
C6_DryRunSendsNothing ==
  config.dryRun =>
    /\ calls.put = 0
    /\ calls.del = <<>>
    /\ calls.list = (IF pc = "load" THEN 0 ELSE 1)

C6_Witness ==
  /\ config.dryRun
  /\ pc = "done"
  /\ plan.tagsDelete # <<>>
  /\ tagIdx = Len(plan.tagsDelete) + 1
  /\ plan.versionsDelete # <<>>
  /\ deletedCount = Len(plan.versionsDelete)

\* The tags matched by neither include-tags nor exclude-tags.
UnmatchedTags ==
  {t \in EligibleTags : ~Matches(config.includeTags, t) /\ ~Matches(config.excludeTags, t)}

\* The unmatched tags other than t that are at least as recent / more recent.
NotOlder(t) == {u \in UnmatchedTags \ {t} : UpdatedAt(Owner(u)) >= UpdatedAt(Owner(t))}
Newer(t) == {u \in UnmatchedTags : UpdatedAt(Owner(u)) > UpdatedAt(Owner(t))}

\* C7: of the tags matched by neither include-tags nor exclude-tags, most
\* recent first, the first keep-n-tagged are kept with their versions and
\* descendants and the others are in tags_delete; when keep-n-tagged is unset
\* all of them and their versions are kept; ten roots t0..t9 with ascending
\* updated_at and keep-n-tagged = 3 give tags_delete = {t0..t6} and
\* versions_delete = their roots.
C7_KeepNTagged ==
  PlanDetermined =>
    /\ ~IsSet(config.keepNtagged) =>
         \A t \in UnmatchedTags :
           ~Includes(plan.tagsDelete, t) /\ Owner(t) \notin Deleted
    /\ IsSet(config.keepNtagged) =>
         \A t \in UnmatchedTags :
           /\ Cardinality(NotOlder(t)) < config.keepNtagged =>
                /\ ~Includes(plan.tagsDelete, t)
                /\ Descendants(Owner(t)) \cap Deleted = {}
           /\ Cardinality(Newer(t)) >= config.keepNtagged => Includes(plan.tagsDelete, t)
    /\ (/\ repository.ver = TenRootsRepo.ver
        /\ config.includeTags = "" /\ config.excludeTags = "" /\ config.keepNtagged = 3)
       => Range(plan.tagsDelete) = {Tag(n) : n \in 0..6} /\ Deleted = 1..7

\* The versions selected to be kept: by exclude-tags, by the keep-n-tagged most
\* recent tags and by the keep-n-untagged most recent roots.
KeptSelections ==
  {Owner(t) : t \in Range(plan.b_tags) \cup Range(plan.c_tags)} \cup Range(plan.e_versions)

KeptClosure == UNION {Descendants(k) : k \in KeptSelections}

\* The candidates of keep-n-untagged: the untagged roots that are no
\* attestations and are in neither set built from the tag options.
Candidates ==
  {r \in Range(roots) :
     /\ vtags[r] = <<>>
     /\ type[r] # "attestation"
     /\ ~Includes(plan.removeTagged.versions, r)
     /\ ~Includes(plan.keepTagged.versions, r)}

\* C8: imagesRest holds exactly the candidates, most recent first; the first
\* keep-n-untagged of them (all when unset) are kept with their descendants;
\* every other candidate is in versions_delete with its descendants, except
\* those of a kept closure; no candidate has a parent.
C8_KeepNUntagged ==
  PlanDetermined =>
    /\ Range(plan.imagesRest) = Candidates
    /\ Len(plan.imagesRest) = Cardinality(Candidates)
    /\ \A i, j \in 1..Len(plan.imagesRest) :
         i < j => UpdatedAt(plan.imagesRest[i]) >= UpdatedAt(plan.imagesRest[j])
    /\ \A i \in 1..Len(plan.imagesRest) :
         /\ parent[plan.imagesRest[i]] = 0
         /\ IF ~IsSet(config.keepNuntagged) \/ i <= config.keepNuntagged
              THEN Descendants(plan.imagesRest[i]) \cap Deleted = {}
            ELSE /\ plan.imagesRest[i] \in Deleted
                 /\ \A d \in ProperDescendants(plan.imagesRest[i]) :
                      d \in Deleted \/ d \in KeptClosure

C8_Witness ==
  /\ PlanDetermined
  /\ config.keepNuntagged = 1
  /\ Len(plan.imagesRest) >= 2
  /\ \E i \in 2..Len(plan.imagesRest) : ProperDescendants(plan.imagesRest[i]) # {}
  /\ \E i \in 1..Len(plan.imagesRest) :
       i < Len(plan.imagesRest)
       /\ UpdatedAt(plan.imagesRest[i]) > UpdatedAt(plan.imagesRest[i + 1])

\* C9: every proper descendant of a root in versions_delete is in
\* versions_delete too, unless it belongs to the closure of a kept version.
C9_DeletedClosure ==
  PlanDetermined =>
    \A r \in Deleted \cap Range(roots) :
      \A d \in ProperDescendants(r) : d \in Deleted \/ d \in KeptClosure

C9_Witness ==
  /\ PlanDetermined
  /\ \E r \in Deleted \cap Range(roots) :
       /\ \E d \in ProperDescendants(r) : d \in Deleted
       /\ \E d \in ProperDescendants(r) : d \notin Deleted /\ d \in KeptClosure

\* C10: at most maxConcurrency deleteVersion calls are in flight.
C10_BoundedConcurrency == InFlightSize <= maxConcurrency

C10_Witness ==
  /\ pc = "versions"
  /\ InFlightSize = maxConcurrency
  /\ awaiting
  /\ verIdx < Len(plan.versionsDelete)
  /\ \E v \in DOMAIN inFlight : inFlight[v] = "rest"

\* Every tag deletion has completed.
TagsDeleted == tagIdx = Len(plan.tagsDelete) + 1 /\ tagStep = "idle"

\* The number of times v occurs in s.
Occurrences(s, v) == Cardinality({i \in 1..Len(s) : s[i] = v})

\* One step of the run, as far as the order of the deletions goes.
SequentialStep ==
  /\ tagIdx' \in {tagIdx, tagIdx + 1}
  /\ tagIdx' = tagIdx + 1 =>
       pc = "tags" /\ tagIdx <= Len(plan.tagsDelete) /\ tagStep' = "idle"
  /\ (tagStep = "idle" /\ tagStep' # "idle") => tagIdx' = tagIdx
  /\ (tagStep # "idle" /\ tagStep' = "idle") => tagIdx' = tagIdx + 1
  /\ Range(tags) \ Range(tags') # {} =>
       \/ pc = "versions"
       \/ /\ pc = "tags" /\ tagIdx <= Len(plan.tagsDelete)
          /\ Range(tags) \ Range(tags') = {CurrentTag}
  /\ verIdx' # verIdx => pc = "versions" /\ TagsDeleted
  /\ \A v \in Deleted : Occurrences(calls'.del, v) # Occurrences(calls.del, v) =>
       pc = "versions" /\ TagsDeleted

\* C11: the tags of tags_delete are deleted one at a time in the order of
\* tags_delete, each deletion starting only when the previous one has
\* completed, and no deletion of a planned version starts before every tag
\* deletion has completed.
C11_SequentialTagDeletion ==
  /\ [](verIdx > 0 \/ InFlightSize > 0 \/ pc \in {"versions", "done"} => TagsDeleted)
  /\ [][SequentialStep]_vars

\* The promises that leave inFlight in a step.
Settled == DOMAIN inFlight \ DOMAIN inFlight'

\* deleteVersion(v) has returned: it had nothing to send and had removed v from
\* memory, or its DeleteVersion request succeeded and v was removed from memory.
DeleteReturned(v) ==
  \/ inFlight[v] = "resolved"
  \/ inFlight[v] = "rest" /\ v \notin repository'.live /\ Dig(v) \notin digests'

\* One step of the loop over versionsDelete.
VersionLoopStep ==
  /\ pc = "versions" => pc' \in {"versions", "done"}
  /\ verIdx' # verIdx =>
       /\ verIdx' = verIdx + 1
       /\ plan.versionsDelete[verIdx'] \notin DOMAIN inFlight
       /\ DOMAIN inFlight' = DOMAIN inFlight \cup {plan.versionsDelete[verIdx']}
  /\ DOMAIN inFlight' \ DOMAIN inFlight # {} => verIdx' = verIdx + 1
  /\ \A v \in Settled :
       deletedCount' = IF DeleteReturned(v) THEN deletedCount + 1 ELSE deletedCount
  /\ Settled = {} => deletedCount' = deletedCount
  /\ Cardinality(Settled) <= 1

\* C12: once the tag deletions have succeeded, deleteVersion is invoked once
\* for every version of versions_delete, whatever the outcome of the other
\* deletions; a failed deletion does not end the run and is not counted.
C12_VersionFailureNotFatal ==
  /\ [](pc = "done" => verIdx = Len(plan.versionsDelete) /\ InFlightSize = 0)
  /\ [](deletedCount <= verIdx - InFlightSize)
  /\ [][VersionLoopStep]_vars

C12_Witness ==
  /\ pc = "done"
  /\ Len(plan.versionsDelete) >= 3
  /\ deletedCount = 1
  /\ calls.del # <<>>

\* A step of deleteTag from one of its await points: the awaited call has
\* returned and deleteTag goes on, or it has thrown (or the version for the
\* tag is not found) and the run is over, with nothing further sent.
TagDeletionStep ==
  pc = "tags" /\ tagStep # "idle" =>
    \/ /\ tagStep = "put"
       /\ tagStep' = "relist" /\ pc' = "tags"
    \/ /\ tagStep = "relist"
       /\ getVersion(versions', CurrentTag) # 0
       /\ tagStep' = "delete" /\ pc' = "tags"
       /\ calls'.del = Append(calls.del, getVersion(versions', CurrentTag))
    \/ /\ tagStep = "delete"
       /\ getVersion(versions', CurrentTag) = 0
       /\ tagStep' = "idle" /\ tagIdx' = tagIdx + 1 /\ pc' = "tags"
    \/ /\ pc' = "failed"
       /\ tagIdx' = tagIdx /\ calls' = calls /\ verIdx' = verIdx

\* The run has failed while deleting the tag at tagIdx.
TagDeletionFailed == pc = "failed" /\ plan.ok /\ tagIdx <= Len(plan.tagsDelete) /\ tagStep # "idle"

\* C13: when the put, the re-listing or the lookup of the re-listed version of
\* a tag deletion fails, the run ends failed; no later tag is processed and no
\* DeleteVersion request is sent for a version of versions_delete.
C13_TagFailureFatal ==
  /\ [](pc = "failed" =>
          /\ verIdx = 0 /\ InFlightSize = 0 /\ deletedCount = 0
          /\ \A i \in 1..Len(calls.del) : calls.del[i] \notin Deleted)
  /\ [][TagDeletionStep /\ pc # "failed"]_vars

\* The number of times v occurs in the sequence s.
\* v.parent = p if and only if v is in p.children, where it occurs once.
LinksConsistent ==
  \A v, p \in Range(uniqueVersions) :
    /\ parent[v] = p <=> Includes(children[p], v)
    /\ Occurrences(children[p], v) <= 1

\* C14: from the construction of the forest on and after every deletion,
\* v.parent = p if and only if v is in p.children, and v occurs in p.children
\* at most once, for all versions v and p of the repository.
C14_ParentChildrenConsistent ==
  pc \in {"plan", "log", "tags", "versions", "done"} => LinksConsistent

\* The keys under which version v is registered.
KeysOf(v) == {Dig(v), Id(v)} \cup Range(vtags[v])

\* Every version of the repository is the value of each of its keys, and every
\* key resolves to a version of the repository that owns it.
KeyIndexConsistent ==
  /\ \A v \in Range(uniqueVersions) : \A k \in KeysOf(v) : getVersion(versions, k) = v
  /\ \A k \in DOMAIN versions :
       versions[k] \in Range(uniqueVersions) /\ k \in KeysOf(versions[k])
  /\ \A v, w \in Range(uniqueVersions) : v # w => KeysOf(v) \cap KeysOf(w) = {}
  /\ digests = {Dig(v) : v \in Range(uniqueVersions)}
  /\ Range(tags) = UNION {Range(vtags[v]) : v \in Range(uniqueVersions)}

\* deleteVersion has returned in this step (in the loop over versionsDelete, in
\* a dry run of that loop, or at the end of deleteTag).
DeleteVersionReturned ==
  \/ deletedCount' = deletedCount + 1 /\ repository'.live # repository.live
  \/ \E v \in DOMAIN inFlight' \ DOMAIN inFlight : inFlight'[v] = "resolved"
  \/ tagStep = "delete" /\ tagIdx' = tagIdx + 1

\* The versions that leave the repository in a step no longer resolve by any
\* of their keys and, when deleteVersion has returned, are no roots.
DeletedUnresolvable ==
  \A v \in Range(uniqueVersions) \ Range(uniqueVersions') :
    /\ \A k \in KeysOf(v) : getVersion(versions', k) = 0
    /\ \A k \in DOMAIN versions' : versions'[k] # v
    /\ DeleteVersionReturned => ~Includes(roots', v)

\* C15: after loading and after any tag and version deletions every version of
\* the repository is the value of the key index for its digest, its id and each
\* of its tags, and no key resolves to any other version; a deleted version
\* resolves by none of its keys and is no root.
C15_KeyIndexConsistent ==
  /\ [](pc # "load" => KeyIndexConsistent)
  /\ [][DeletedUnresolvable]_vars

\* The versions that version v attests: the target of its manifest's subject
\* and the targets of its referrers tags.
Attested(v) ==
  {getVersion(versions, Dig(repository.ver[w].subject)) :
     w \in {x \in {v} : repository.ver[x].subject # 0}}
    \cup {getVersion(versions, ReplaceDash(vtags[v][k])) :
            k \in {j \in 1..Len(vtags[v]) : IsReferrerTag(vtags[v][j])}}

\* C16: after forest construction and after every deletion no root is an
\* attestation, and every attestation is a child of the version it attests.
C16_NoAttestationRoot ==
  pc \in {"plan", "log", "tags", "versions", "done"} =>
    /\ \A r \in Range(roots) : type[r] # "attestation"
    /\ \A v \in Range(uniqueVersions) :
         type[v] = "attestation" => parent[v] # 0 /\ parent[v] \in Attested(v)

\* The recursion depth no walk over a forest without a cycle exceeds.
WalkFuel == Cardinality(DOMAIN children) + 1

\* C17: whatever subject and index references the manifests hold, circular
\* ones included, once the forest is built visit returns from every root and
\* getClosure returns from every version of the repository.
C17_WalksTerminate ==
  pc \in {"plan", "log", "tags", "versions", "done"} =>
    /\ \A r \in Range(roots) : visit(children, r, WalkFuel).ok
    /\ \A v \in Range(uniqueVersions) : getClosure(versions, children, Dig(v), WalkFuel).ok

\* The versions of the repository that one of the three mechanisms names as
\* parent of version v: the indexes that list v, the subject of v and the
\* targets of the referrers tags of v.
NamedParents(v) ==
  ({p \in Range(uniqueVersions) : Includes(repository.ver[p].manifests, v)}
     \cup Attested(v)) \ {0, v}

\* C18: forest construction does not succeed on a repository in which the
\* three mechanisms name two different parents for one version.
C18_TwoParentsRejected ==
  pc = "plan" => \A v \in Range(uniqueVersions) : Cardinality(NamedParents(v)) <= 1

\* The manifest the claim has stand in for an absent one: no manifests, no
\* subject, no layers.
MinimalManifest(rec) ==
  [rec EXCEPT !.manifests = <<>>, !.hasManifests = FALSE, !.subject = 0, !.layers = "absent"]

\* The repository with a minimal manifest in place of every absent one.
WithMinimalManifests(repo) ==
  [repo EXCEPT !.ver = [i \in 1..Len(repo.ver) |->
                          IF i \in repo.notFound THEN MinimalManifest(repo.ver[i])
                          ELSE repo.ver[i]],
               !.notFound = {}]

\* Loading a repository with a listed version whose manifest is absent.
LoadsManifestNotFound == pc = "load" /\ pc' # "load" /\ repository.live \cap repository.notFound # {}

\* C19: loading a repository with a listed version whose manifest is absent
\* does not end the run: every listed version is registered, the one without
\* manifest as a version with a minimal manifest, and the run goes on to the
\* selection.
C19_ManifestNotFoundTolerated ==
  [][LoadsManifestNotFound =>
       /\ Range(uniqueVersions') = repository.live
       /\ roots' = loadVersions(WithMinimalManifests(repository)).m.roots
       /\ pc' = "plan"]_vars

\* The tag deletions deleteTag has been called for.
TagsStarted == tagIdx - 1 + (IF tagStep = "idle" THEN 0 ELSE 1)

\* Version v is registered under its digest and its id.
Resolvable(vmap, v) == getVersion(vmap, Dig(v)) = v /\ getVersion(vmap, Id(v)) = v

\* The put of deleteTag has returned: the version that carried the tag has
\* lost it and nothing else.
PutFrame ==
  tagStep = "put" /\ tagStep' = "relist" =>
    LET V == getVersion(versions, CurrentTag)
    IN  /\ Resolvable(versions', V)
        /\ vtags'[V] = Without(vtags[V], CurrentTag)
        /\ \A t \in Range(vtags'[V]) : getVersion(versions', t) = V
        /\ getVersion(versions', CurrentTag) = 0

\* The second listing of deleteTag has returned: it has added a version that
\* was not there before and changed none that was; DeleteVersion goes to the
\* added version.
RelistFrame ==
  tagStep = "relist" /\ pc' = "tags" =>
    /\ getVersion(versions', CurrentTag) \notin Range(uniqueVersions)
    /\ calls'.del = Append(calls.del, getVersion(versions', CurrentTag))
    /\ \A v \in Range(uniqueVersions) :
         Resolvable(versions', v) /\ vtags'[v] = vtags[v]

\* The DeleteVersion of deleteTag has returned: the added version is gone, the
\* tag resolves no longer and the other versions are as they were.
DeleteFrame ==
  tagStep = "delete" /\ pc' = "tags" =>
    /\ getVersion(versions', CurrentTag) = 0
    /\ \A v \in Range(uniqueVersions) \ {getVersion(versions, CurrentTag)} :
         /\ Includes(uniqueVersions', v)
         /\ Resolvable(versions', v)
         /\ vtags'[v] = vtags[v]
         /\ \A t \in Range(vtags'[v]) : getVersion(versions', t) = v

\* C20: when the run is no dry run, deleting tag t of version V puts one
\* manifest under t, lists the versions again and sends DeleteVersion for the
\* new version that carries t and never for V; afterwards V resolves by its
\* digest and its id, its tags are those it had without t and still resolve to
\* it, and t resolves no longer.
C20_TagDeletionKeepsVersion ==
  /\ [](~config.dryRun /\ pc \in {"tags", "versions", "done"} => calls.put = TagsStarted)
  /\ [][~config.dryRun /\ pc = "tags" => PutFrame /\ RelistFrame /\ DeleteFrame]_vars

\* A step of run before the first deletion leaves the forest, the root set and
\* the key index as they are.
PlanStepIsPure ==
  pc \in {"plan", "log"} =>
    /\ parent' = parent /\ children' = children /\ type' = type
    /\ roots' = roots /\ versions' = versions

\* C21: determining and logging the plan, between loadVersions and the first
\* deletion, changes neither the parent, the children or the type of any
\* version nor the root set nor the key index.
C21_SelectionIsPure == [][PlanStepIsPure]_vars

\* The media type a variant class declares.
DeclaredMediaType(class) ==
  CASE class = "OCIImageManifestModel" -> "application/vnd.oci.image.manifest.v1+json"
    [] class = "OCIImageIndexModel" -> "application/vnd.oci.image.index.v1+json"
    [] class = "DockerManifestListModel" ->
         "application/vnd.docker.distribution.manifest.list.v2+json"
    [] class = "DockerImageManifestModel" ->
         "application/vnd.docker.distribution.manifest.v2+json"

\* The argument is the JSON text of an object with one of the four media types.
SupportedPayload ==
  /\ jsonString.kind = "string"
  /\ jsonString.json.t = "object"
  /\ jsonString.json.mediaType \in MediaTypes

LinkVersionsPost(p, c) ==
  IF p = c \/ (parent[c] # 0 /\ parent[c] # p)
    THEN /\ pc' = "threw"
         /\ parent' = parent
         /\ children' = children
  ELSE /\ pc' = "returned"
       /\ parent' = [parent EXCEPT ![c] = p]
       /\ children' = [children EXCEPT ![p] = IF Includes(@, c) THEN @ ELSE Append(@, c)]
       /\ Occurrences(children'[p], c) = 1

LinkVersionsStep ==
  \A p, c \in LinkNodes : LinkVersions(p, c) => LinkVersionsPost(p, c)

\* C23: linkVersions(parent, child) throws when parent = child and when the
\* child already has a different parent, leaving parent and children of every
\* node as they were; otherwise the child's parent is the given parent, the
\* child is appended to the parent's children unless it is already there, so
\* that it occurs there once however often the pair is linked.
C23_LinkVersions == [][LinkVersionsStep]_vars

\* The decision list of the classification, first match wins.
ClassifiedAs(rec, ts) ==
  IF rec.layers = "intoto" THEN "attestation"
  ELSE IF rec.subject # 0 THEN "attestation"
  ELSE IF \E k \in 1..Len(ts) : IsReferrerTag(ts[k]) THEN "attestation"
  ELSE IF rec.layers = "image" THEN "single-arch image"
  ELSE IF Len(rec.manifests) > 0 THEN "multi-arch image"
  ELSE "unknown"

\* C24: getArtifactType follows the decision list for every combination of
\* layers, subject, tags and manifests: non-empty layers all of them in-toto
\* give attestation, else a subject gives attestation, else a referrers tag
\* gives attestation, else non-empty layers give single-arch image, else
\* non-empty manifests give multi-arch image, else unknown.
C24_Classification ==
  pc = "returned" => type[1] = ClassifiedAs(repository.ver[1], vtags[1])

\* Version v is linked neither by the manifest-children pass (no version lists
\* it) nor by the referrers pass (its subject resolves to nothing).
NotLinkedEarlier(v) ==
  /\ \A w \in Range(uniqueVersions) :
       \A k \in 1..Len(repository.ver[w].manifests) :
         getVersion(versions, Dig(repository.ver[w].manifests[k])) # v
  /\ \/ repository.ver[v].subject = 0
     \/ getVersion(versions, Dig(repository.ver[v].subject)) = 0

\* C25: after forest construction every version v that the two earlier passes
\* did not link is a child of every other version u that one of its tags, with
\* the first '-' replaced by ':', resolves to, whether or not u is itself a
\* child of another version; v is never its own parent or child.
C25_ReferrerTagPass ==
  pc = "plan" =>
    \A v \in Range(uniqueVersions) :
      /\ parent[v] # v
      /\ ~Includes(children[v], v)
      /\ NotLinkedEarlier(v) =>
           \A k \in 1..Len(vtags[v]) :
             LET u == getVersion(versions, ReplaceDash(vtags[v][k]))
             IN  u # 0 /\ u # v => parent[v] = u /\ Includes(children[u], v)

\* Versions x and y of the repository are two indexes that no version lists
\* and that have no subject, and both list the digest of version c.
TwoParents(x, y, c) ==
  /\ x # y
  /\ x # c
  /\ y # c
  /\ \A p \in {x, y} :
       /\ Includes(repository.ver[p].manifests, c)
       /\ repository.ver[p].subject = 0
       /\ \A w \in repository.live : ~Includes(repository.ver[w].manifests, p)

LoadsTwoParents ==
  \A x, y, c \in repository.live :
    (pc = "load" /\ fetchVersions(repository).ok /\ TwoParents(x, y, c)) =>
      /\ pc' = "plan"
      /\ Includes(roots', x)
      /\ Includes(roots', y)
      /\ ~Includes(roots', c)
      /\ Includes(children'[x], c)
      /\ Includes(children'[y], c)

\* C26: when two indexes both list the digest of the same child, forest
\* construction completes without error, both indexes are roots, the child is
\* not, and the child is in the children of each of the two.
C26_MultipleParents == [][LoadsTwoParents]_vars

\* The tags owned by the versions of a list.
TagsOwnedBy(vs) == UNION {Range(vtags[v]) : v \in Range(vs)}

CandidateTags ==
  Range(plan.a_tags) \cup Range(plan.b_tags) \cup Range(plan.tagsRest)
    \cup Range(plan.c_tags) \cup Range(plan.d_tags)

\* The versions a plan selects directly: the owners of the candidate tags and
\* the untagged images kept or removed.
SelectedVersions ==
  {Owner(t) : t \in CandidateTags} \cup Range(plan.e_versions) \cup Range(plan.f_versions)

VersionRequestFails ==
  /\ pc = "versions"
  /\ repository' = repository
  /\ \E v \in DOMAIN inFlight : inFlight[v] = "rest" /\ v \notin DOMAIN inFlight'

\* The version loop calls deleteVersion with an id that resolves to no version.
VersionKeyUnresolved ==
  /\ pc = "versions"
  /\ verIdx' = verIdx + 1
  /\ getVersion(versions, Id(plan.versionsDelete[verIdx + 1])) = 0

\* deleteTag's DeleteVersion request comes back with an error, or the tag
\* resolves to no version.
TagRequestFails ==
  /\ pc = "tags"
  /\ tagStep = "delete"
  /\ pc' # "tags"
  /\ repository' = repository

FailedDeleteKeepsMemory ==
  (VersionRequestFails \/ VersionKeyUnresolved \/ TagRequestFails) =>
    /\ versions' = versions
    /\ tags' = tags
    /\ digests' = digests
    /\ uniqueVersions' = uniqueVersions
    /\ roots' = roots
    /\ vtags' = vtags
    /\ parent' = parent
    /\ children' = children
    /\ type' = type

\* C29: when the DeleteVersion request for a version fails, or deleteVersion is
\* called with a key that resolves to no version, the key index, the tag and
\* digest sets, the roots and every parent and children link are what they
\* were before, and the forest is not rebuilt.
C29_FailedDeleteKeepsMemory == [][FailedDeleteKeepsMemory]_vars

\* A run in which every DeleteVersion request of the version loop has failed:
\* every version the requests named still resolves by its id and its digest.
C29_Witness ==
  /\ pc = "done"
  /\ Len(calls.del) >= 2
  /\ deletedCount = 0
  /\ \A k \in 1..Len(calls.del) :
       /\ getVersion(versions, Id(calls.del[k])) = calls.del[k]
       /\ getVersion(versions, Dig(calls.del[k])) = calls.del[k]
       /\ Includes(uniqueVersions, calls.del[k])

\* The summary is logged only when every started deletion has completed.
AllSettledAtSummary ==
  pc = "done" =>
    /\ InFlightSize = 0
    /\ ~awaiting
    /\ verIdx = Len(plan.versionsDelete)

\* C30: when every DeleteVersion call returns, the version-deletion phase ends
\* for every plan: the loop waits on no in-flight set for ever, and when the
\* summary is logged every version of the plan has been started, every started
\* deletion has completed and the in-flight set is empty.
C30_VersionPhaseTerminates ==
  /\ []AllSettledAtSummary
  /\ (pc = "versions") ~> (pc = "done")

\* The end of a run whose plan held more versions than fit in flight at
\* once, some of whose DeleteVersion requests failed.
C30_Witness ==
  /\ pc = "done"
  /\ ~config.dryRun
  /\ Len(plan.versionsDelete) > 2 * maxConcurrency
  /\ verIdx = Len(plan.versionsDelete)
  /\ deletedCount \in 1..(Len(plan.versionsDelete) - 1)
  /\ InFlightSize = 0

====
